---- MODULE Spec2Model ----
(***************************************************************************)
(* Model of scripts/import-legacy-problems.py: the legacy problem import   *)
(* (expert name resolution, the PE and IB row importers, and main).        *)
(*                                                                         *)
(* Text is a sequence of tokens: a token is either the blank " " or a word *)
(* without whitespace.  "Jerry Song" is <<"Jerry", " ", "Song">>, the      *)
(* empty string is << >>.  lower(), strip() and split() act on tokens.     *)
(***************************************************************************)
EXTENDS Integers, Sequences, FiniteSets, TLC

VARIABLES
    \* ---- get_expert_id_map and resolve_expert_name ----
    name_map,       \* the table being built by get_expert_id_map
    exp_i,          \* position of its for loop in cursor.fetchall()
    q_name,         \* last argument given to resolve_expert_name on its own
    q_res,          \* its outcome
    \* ---- the import run ----
    experts,        \* table experts: the rows (id, name) in the order they are fetched
    pe_file,        \* rows of sheet 'PE Problems Catalog'
    ib_file,        \* rows of sheet 'IB Problems Catalog'
    committed,      \* table problems, durable content
    pending,        \* table problems as seen by the connection's transaction
    tx,             \* transaction status of the connection: "idle" | "active" | "error"
    clock,          \* value NOW() gives to the current transaction
    conn,           \* "none" | "open" | "closed"
    closes,         \* number of conn.close() calls of this run
    pc,             \* position in main and the importers
    expert_map,     \* result of get_expert_id_map held by main
    df,             \* the importer's data frame
    idx,            \* index of the next row of df.iterrows()
    imported,
    skipped,
    errors,
    pe_count,
    ib_count,
    commits,        \* the importers whose conn.commit() has returned in this run
    failed,         \* "none", or the position at which an uncaught exception was raised
    run,            \* number of the run of the script
    first_run       \* table problems when the first run ended, and how it ended

rvars == <<name_map, exp_i, q_name, q_res>>
mvars == <<experts, pe_file, ib_file, committed, pending, tx, clock, conn, closes,
           pc, expert_map, df, idx, imported, skipped, errors, pe_count, ib_count,
           commits, failed, run, first_run>>
vars == <<rvars, mvars>>

----------------------------------------------------------------------------
(* Text *)

SP == " "

\* str.lower() on the words used below; other tokens have no upper-case letter.
LowerTok(t) ==
    CASE t = "Jerry"   -> "jerry"
      [] t = "JERRY"   -> "jerry"
      [] t = "Song"    -> "song"
      [] t = "SONG"    -> "song"
      [] t = "Lee"     -> "lee"
      [] t = "Jerome"  -> "jerome"
      [] t = "Powell"  -> "powell"
      [] t = "Jack"    -> "jack"
      [] t = "Barnett" -> "barnett"
      [] t = "Smith"   -> "smith"
      [] t = "Robert"  -> "robert"
      [] t = "Alward"  -> "alward"
      [] t = "Rob"     -> "rob"
      [] t = "Done"    -> "done"
      [] t = "Open"    -> "open"
      [] t = "P-100"   -> "p-100"
      [] t = "P-2"     -> "p-2"
      [] OTHER         -> t

Lower(s) == [i \in 1..Len(s) |-> LowerTok(s[i])]

RECURSIVE LStrip(_)
LStrip(s) == IF s # << >> /\ Head(s) = SP THEN LStrip(Tail(s)) ELSE s

RECURSIVE RStrip(_)
RStrip(s) == IF s # << >> /\ s[Len(s)] = SP THEN RStrip(SubSeq(s, 1, Len(s) - 1)) ELSE s

\* str.strip()
Strip(s) == RStrip(LStrip(s))

\* length of the leading run of non-blank tokens
RECURSIVE WordLen(_)
WordLen(s) == IF s = << >> \/ Head(s) = SP THEN 0 ELSE 1 + WordLen(Tail(s))

\* str.split(): the maximal runs of non-blank tokens, in order
Split(s) ==
    LET starts == { i \in 1..Len(s) : s[i] # SP /\ (i = 1 \/ s[i - 1] = SP) }
        start(k) == CHOOSE i \in starts : Cardinality({ j \in starts : j < i }) = k - 1
    IN  [k \in 1..Cardinality(starts) |->
            SubSeq(s, start(k), start(k) + WordLen(SubSeq(s, start(k), Len(s))) - 1)]

----------------------------------------------------------------------------
(* Python and SQL values: one record shape for all of them *)

V(t, s, n) == [t |-> t, s |-> s, n |-> n]
NaN     == V("nan", << >>, 0)          \* pandas' missing value
None    == V("none", << >>, 0)         \* Python None, SQL NULL
S(s)    == V("str", s, 0)
N(n)    == V("int", << >>, n)
B(b)    == V("bool", << >>, IF b THEN 1 ELSE 0)
Big     == V("big", << >>, 0)          \* the Python integer 2**31, past 32 bits

\* pd.isna / pd.notna on a scalar
PdIsNa(c) == c.t \in {"nan", "none"}
PdNotNa(c) == ~PdIsNa(c)

\* Python truth value
Truthy(c) ==
    CASE c.t = "str"  -> c.s # << >>
      [] c.t = "int"  -> c.n # 0
      [] c.t = "bool" -> c.n # 0
      [] c.t = "none" -> FALSE
      [] OTHER        -> TRUE           \* float('nan') is truthy

\* str(x)
PyStr(c) ==
    CASE c.t = "str"  -> c
      [] c.t = "int"  -> S(<<ToString(c.n)>>)
      [] c.t = "bool" -> S(<<IF c.n = 1 THEN "True" ELSE "False">>)
      [] c.t = "big"  -> S(<<"2147483648">>)
      [] c.t = "none" -> S(<<"None">>)
      [] OTHER        -> S(<<"nan">>)

\* an outcome of evaluating an expression: a value, or the exception it raises
Ret(v)   == [exc |-> "none", val |-> v]
Raise(e) == [exc |-> e, val |-> None]

----------------------------------------------------------------------------
(* Expert resolver *)

\* name_map[name_lower] = id                                   (line 33)
RegisterFull(m, e) ==
    LET name_lower == Lower(e.name) IN
    [k \in DOMAIN m \cup {name_lower} |-> IF k = name_lower THEN e.id ELSE m[k]]

\* name_lower.split()[0] raises IndexError on a name without a word
FirstNameRaises(e) == Split(Lower(e.name)) = << >>

\* the first name registered without the test of the key: the last registrant wins
RegisterFirst_Overwrites(m, e) ==
    LET first_name == Split(Lower(e.name))[1] IN
    [k \in DOMAIN m \cup {first_name} |-> IF k = first_name THEN e.id ELSE m[k]]

\* if first_name not in name_map: name_map[first_name] = id    (lines 35-37)
RegisterFirst(m, e) ==
    LET first_name == Split(Lower(e.name))[1] IN
    IF first_name \in DOMAIN m THEN m
    ELSE [k \in DOMAIN m \cup {first_name} |-> IF k = first_name THEN e.id ELSE m[k]]

EmptyMap == [k \in {} |-> 0]

\* a roster: the rows (id, name) in the order cursor.fetchall() returns them
RosterOf(names) == [i \in 1..Len(names) |-> [id |-> i, name |-> names[i]]]

T1(a) == <<a>>
T2(a, b) == <<a, SP, b>>

\* the literal of lines 58-81
aliases ==
    (T1("rob") :> T2("robert", "alward")) @@
    (T1("jerry") :> T2("jerry", "song")) @@
    (T1("alex") :> T2("alex", "ishin")) @@
    (T1("phil") :> T2("philip", "garbarini")) @@
    (T1("zach") :> T2("zach", "barry")) @@
    (T1("ryan") :> T2("ryan", "diebner")) @@
    (T1("jackson") :> T2("jackson", "ozello")) @@
    (T1("arielle") :> T2("arielle", "flynn")) @@
    (T1("josh") :> T2("josh", "miller")) @@
    (T1("sneh") :> T2("sneh", "kumar")) @@
    (T1("kavi") :> T2("kavi", "munjal")) @@
    (T1("lindsay") :> T2("lindsay", "saldebar")) @@
    (T1("frank") :> T2("frank", "mork")) @@
    (T1("prem") :> T2("prem", "patel")) @@
    (T1("tyler") :> T2("tyler", "patterson")) @@
    (T1("haylee") :> T2("haylee", "glenn")) @@
    (T1("jack") :> T2("jack", "barnett")) @@
    (T1("minesh") :> T2("minesh", "patel")) @@
    (T1("jason") :> T2("jason", "dotzel")) @@
    (T1("wyatt") :> T2("wyatt", "morgan")) @@
    (T1("will") :> T2("will", "chen")) @@
    (T1("justin") :> T2("justin", "hwang"))

\* resolve_expert_name(name, expert_map)
ResolveExpertName(name, m) ==
    IF PdIsNa(name) \/ ~Truthy(name) THEN Ret(None)
    ELSE
      LET name_str == Lower(Strip(PyStr(name).s)) IN
      IF name_str \in DOMAIN m THEN Ret(N(m[name_str]))
      ELSE IF Split(name_str) = << >> THEN Raise("IndexError")
      ELSE
        LET first_name == Split(name_str)[1] IN
        IF first_name \in DOMAIN m THEN Ret(N(m[first_name]))
        ELSE IF name_str \in DOMAIN aliases /\ aliases[name_str] \in DOMAIN m
             THEN Ret(N(m[aliases[name_str]]))
        ELSE Ret(None)

----------------------------------------------------------------------------
(* Rows, coercion and the upsert statement *)

\* row.get(col): None for a column the sheet does not have
Get(row, col) == IF col \in DOMAIN row THEN row[col] ELSE None

\* the decimal numerals that occur in the sheets
NumeralValue == ("5" :> 5) @@ ("7" :> 7)

\* int(x)
PyInt(c) ==
    CASE c.t = "int"  -> Ret(N(c.n))
      [] c.t = "big"  -> Ret(Big)
      [] c.t = "bool" -> Ret(N(c.n))
      [] c.t = "str"  ->
            LET w == Strip(c.s) IN
            IF Len(w) = 1 /\ w[1] \in DOMAIN NumeralValue
            THEN Ret(N(NumeralValue[w[1]]))
            ELSE Raise("ValueError")
      [] c.t = "none" -> Raise("TypeError")
      [] OTHER        -> Raise("ValueError")

\* int(row[col]) if pd.notna(row.get(col)) else None
OptInt(row, col) == IF PdNotNa(Get(row, col)) THEN PyInt(row[col]) ELSE Ret(None)

\* str(row[col]) if pd.notna(row.get(col)) else None
OptStr(row, col) == IF PdNotNa(Get(row, col)) THEN Ret(PyStr(row[col])) ELSE Ret(None)

\* bool(row[col]) if pd.notna(row.get(col)) else False
OptBool(row, col) == IF PdNotNa(Get(row, col)) THEN Ret(B(Truthy(row[col]))) ELSE Ret(B(FALSE))

\* the two sheets name two columns differently
SpecColumn(env) == IF env = "PE" THEN "Spec #" ELSE "Spec"
GroundTruthColumn(env) == IF env = "PE" THEN "Problem Ground Truth" ELSE "Ground Truth"

\* the test of the ID reduced to pd.isna: an empty ID passes
NotProblemId_IsNaOnly(problem_id) == PdIsNa(problem_id)

\* if not problem_id
NotProblemId(problem_id) == ~Truthy(problem_id)

\* str(row['ID']) if pd.notna(row['ID']) else None
ProblemId(row) == IF PdNotNa(row["ID"]) THEN PyStr(row["ID"]) ELSE None

\* the expressions of one loop iteration in the order Python evaluates them: the five
\* name resolutions, then the parameter tuple.  Explainer Video is PE's alone.
RowExprs(env, row, m) ==
    [ sme_id                    |-> ResolveExpertName(Get(row, "SME"), m),
      reviewer_id               |-> ResolveExpertName(Get(row, "Reviewer 1"), m),
      reviewer2_id              |-> ResolveExpertName(Get(row, "Reviewer 2"), m),
      engineer_id               |-> ResolveExpertName(Get(row, "Engineer / Submitter"), m),
      final_reviewer_id         |-> ResolveExpertName(Get(row, "Final Reviewer"), m),
      spec_number               |-> OptInt(row, SpecColumn(env)),
      status                    |-> OptStr(row, "Status"),
      week                      |-> OptInt(row, "Week"),
      separate_environment_init |-> OptBool(row, "Separate Environment Init"),
      problem_doc               |-> OptStr(row, "Problem Doc"),
      ground_truth              |-> OptStr(row, GroundTruthColumn(env)),
      spec_folder               |-> OptStr(row, "Spec Folder"),
      spec_doc                  |-> OptStr(row, "Spec Doc"),
      spec_data_folder          |-> OptStr(row, "Spec Data Folder"),
      docker_container          |-> OptStr(row, "Docker Container"),
      pr_link                   |-> OptStr(row, "PR Link"),
      blocker_reason            |-> OptStr(row, "Blocker Reason"),
      sonnet_pass_rate          |-> OptStr(row, "Sonnet 4.5  Pass @ 10"),
      opus_pass_rate            |-> OptStr(row, "Opus 4.1 Pass @ 10"),
      explainer_video           |-> IF env = "PE" THEN OptStr(row, "Explainer Video")
                                    ELSE Ret(None) ]

EvalOrder ==
    << "sme_id", "reviewer_id", "reviewer2_id", "engineer_id", "final_reviewer_id",
       "spec_number", "status", "week", "separate_environment_init", "problem_doc",
       "ground_truth", "spec_folder", "spec_doc", "spec_data_folder", "docker_container",
       "pr_link", "blocker_reason", "sonnet_pass_rate", "opus_pass_rate",
       "explainer_video" >>

\* the exception of the first expression that raises, "none" when none does
FirstException(x) ==
    LET bad == { i \in 1..Len(EvalOrder) : x[EvalOrder[i]].exc # "none" } IN
    IF bad = {} THEN "none"
    ELSE x[EvalOrder[CHOOSE i \in bad : \A j \in bad : i <= j]].exc

\* the columns both statements write; reviewer2_id is computed and not passed
MappedColumns ==
    { "spec_number", "status", "sme_id", "reviewer_id", "final_reviewer_id", "engineer_id",
      "week", "separate_environment_init", "problem_doc", "ground_truth", "spec_folder",
      "spec_doc", "spec_data_folder", "docker_container", "pr_link", "blocker_reason",
      "sonnet_pass_rate", "opus_pass_rate" }

\* What the try block of one iteration does up to cursor.execute:
\*   "blank"   the ID is missing, the row is skipped
\*   "raise"   an expression raised exc
\*   "execute" the statement is sent with parameters params
Attempt(env, problem_id, x) ==
    IF FirstException(x) # "none" THEN [kind |-> "raise", exc |-> FirstException(x)]
    ELSE [kind |-> "execute",
          params |-> [c \in MappedColumns \cup {"explainer_video"} |-> x[c].val]
                     @@ [problem_id |-> problem_id, environment |-> S(<<env>>)]]

RowOutcome(env, row, m) ==
    IF "ID" \notin DOMAIN row THEN [kind |-> "raise", exc |-> "KeyError"]
    ELSE IF NotProblemId(ProblemId(row)) THEN [kind |-> "blank"]
    ELSE CHOOSE o \in { Attempt(env, ProblemId(row), x) : x \in {RowExprs(env, row, m)} } : TRUE

\* The problems table's spec_number and week are integer columns: the server rejects a
\* value outside the 32-bit range (NumericValueOutOfRange).
ServerRejects(p) == \E c \in {"spec_number", "week"} : p[c].t = "big"

SameKey(r, p) == r.problem_id = p.problem_id /\ r.environment = p.environment

\* INSERT ... VALUES: the row a statement inserts at time now.  updated_at is not
\* given a value: 0 stands for the column's default.
Inserted(p, now) ==
    p @@ [source |-> S(<<"legacy_sheets">>), created_at |-> now, updated_at |-> 0]

\* an update that also stamps created_at
Updated_StampsCreatedAt(r, p, env, now) ==
    [c \in DOMAIN r |->
        IF c \in MappedColumns THEN p[c]
        ELSE IF c = "explainer_video" /\ env = "PE" THEN p[c]
        ELSE IF c = "source" THEN S(<<"legacy_sheets">>)
        ELSE IF c \in {"updated_at", "created_at"} THEN now
        ELSE r[c]]

\* ON CONFLICT (problem_id, environment) DO UPDATE SET ...: the mapped columns, source
\* and updated_at are overwritten; explainer_video only by the PE statement.
Updated(r, p, env, now) ==
    [c \in DOMAIN r |->
        IF c \in MappedColumns THEN p[c]
        ELSE IF c = "explainer_video" /\ env = "PE" THEN p[c]
        ELSE IF c = "source" THEN S(<<"legacy_sheets">>)
        ELSE IF c = "updated_at" THEN now
        ELSE r[c]]

\* the statement of lines 116-174 (PE) and 214-270 (IB) on a table
Upsert(table, p, env, now) ==
    IF \E r \in table : SameKey(r, p)
    THEN { IF SameKey(r, p) THEN Updated(r, p, env, now) ELSE r : r \in table }
    ELSE table \cup { Inserted(p, now) }

----------------------------------------------------------------------------
(* The sheets, the roster and the table the run starts from *)

MaxRows == 2

PEColumns ==
    { "ID", "SME", "Reviewer 1", "Reviewer 2", "Engineer / Submitter", "Final Reviewer",
      "Spec #", "Status", "Week", "Separate Environment Init", "Problem Doc",
      "Problem Ground Truth", "Spec Folder", "Spec Doc", "Spec Data Folder",
      "Docker Container", "PR Link", "Blocker Reason", "Sonnet 4.5  Pass @ 10",
      "Opus 4.1 Pass @ 10", "Explainer Video" }

IBColumns ==
    { "ID", "SME", "Reviewer 1", "Reviewer 2", "Engineer / Submitter", "Final Reviewer",
      "Spec", "Status", "Week", "Separate Environment Init", "Problem Doc",
      "Ground Truth", "Spec Folder", "Spec Doc", "Spec Data Folder",
      "Docker Container", "PR Link", "Blocker Reason", "Sonnet 4.5  Pass @ 10",
      "Opus 4.1 Pass @ 10" }

\* a row of empty cells
PEEmpty == [c \in PEColumns |-> NaN]
IBEmpty == [c \in IBColumns |-> NaN]

Txt(w) == S(<<w>>)

\* {ID: "P-100", SME: "rob", Spec #: 5, Status: "Done"}
PEGood ==
    ("ID" :> Txt("P-100")) @@ ("SME" :> Txt("rob")) @@ ("Spec #" :> N(5)) @@
    ("Status" :> Txt("Done")) @@ PEEmpty

\* the same ID again with every cell filled; "Jerome" resolves to nobody
PEFull ==
    ("ID" :> Txt("P-100")) @@ ("SME" :> Txt("Jerome")) @@
    ("Reviewer 1" :> S(T2("JERRY", "SONG"))) @@ ("Reviewer 2" :> Txt("rob")) @@
    ("Engineer / Submitter" :> Txt("jerry")) @@
    ("Final Reviewer" :> S(T2("Robert", "Alward"))) @@
    ("Spec #" :> Txt("7")) @@ ("Status" :> Txt("Open")) @@ ("Week" :> N(3)) @@
    [c \in PEColumns |-> IF c = "Separate Environment Init" THEN B(TRUE) ELSE Txt(c)]

\* no ID
PENoId == ("Status" :> Txt("Done")) @@ PEEmpty

\* an empty ID
PEEmptyId == ("ID" :> S(<< >>)) @@ ("Status" :> Txt("Done")) @@ PEEmpty

\* an ID of one blank character
PESpaceId == ("ID" :> S(<<SP>>)) @@ ("Status" :> Txt("Done")) @@ PEEmpty

\* a non-numeric value in a numeric column
PEBadNumber == ("ID" :> Txt("P-2")) @@ ("Spec #" :> Txt("abc")) @@ PEEmpty

\* a number the integer column cannot hold
PEHugeNumber == ("ID" :> Txt("P-2")) @@ ("Spec #" :> Big) @@ PEEmpty

\* a name cell of blanks only
PESpaceName == ("ID" :> Txt("P-2")) @@ ("Reviewer 1" :> S(<<SP, SP>>)) @@ PEEmpty

PERows == { PEGood, PEFull, PENoId, PEEmptyId, PESpaceId, PEBadNumber, PEHugeNumber,
            PESpaceName }

IBGood ==
    ("ID" :> Txt("P-100")) @@ ("SME" :> Txt("jerry")) @@ ("Spec" :> N(5)) @@
    ("Status" :> Txt("Done")) @@ ("Ground Truth" :> Txt("gt")) @@ IBEmpty

IBNoId == ("Status" :> Txt("Done")) @@ IBEmpty

IBHugeNumber == ("ID" :> Txt("P-2")) @@ ("Week" :> Big) @@ IBEmpty

IBRows == { IBGood, IBNoId, IBHugeNumber }

SeqsUpTo(A, n) == UNION { [1..k -> A] : k \in 0..n }

\* the two files: at most MaxRows rows in all
FilePairs ==
    { fp \in SeqsUpTo(PERows, MaxRows) \X SeqsUpTo(IBRows, MaxRows) :
        Len(fp[1]) + Len(fp[2]) <= MaxRows }

\* [(1, "Robert Alward"), (2, "Jerry Song")], and a roster with an empty name
MainRosters ==
    { RosterOf(<<T2("Robert", "Alward"), T2("Jerry", "Song")>>),
      RosterOf(<<T2("Jerry", "Song"), << >>>>) }

\* a record some other source wrote before the migration
Existing(env) ==
    [c \in MappedColumns \cup {"explainer_video"} |->
        IF c \in {"sme_id", "reviewer_id", "final_reviewer_id", "engineer_id"} THEN N(2)
        ELSE IF c \in {"spec_number", "week"} THEN N(9)
        ELSE IF c = "separate_environment_init" THEN B(TRUE)
        ELSE Txt("old")]
    @@ [problem_id |-> Txt("P-100"), environment |-> Txt(env),
        source |-> Txt("horizon"), created_at |-> 0, updated_at |-> 0]

InitialTables == { {}, { Existing("PE"), Existing("IB") } }

\* the two runs of the script that re-importing compares
Runs == {1, 2}

----------------------------------------------------------------------------
(* The run: main, import_pe_problems, import_ib_problems *)

Init ==
    /\ name_map = EmptyMap
    /\ exp_i = 1
    /\ q_name = None
    /\ q_res = Ret(None)
    /\ experts \in MainRosters
    /\ \E fp \in FilePairs : pe_file = fp[1] /\ ib_file = fp[2]
    /\ committed \in InitialTables
    /\ pending = committed
    /\ tx = "idle"
    /\ clock = 1
    /\ conn = "none"
    /\ closes = 0
    /\ pc = "connect"
    /\ expert_map = EmptyMap
    /\ df = << >>
    /\ idx = 0
    /\ imported = 0
    /\ skipped = 0
    /\ errors = << >>
    /\ pe_count = 0
    /\ ib_count = 0
    /\ commits = << >>
    /\ failed = "none"
    /\ run = 1
    /\ first_run = [ended |-> "no", table |-> {}]

inputs == <<experts, pe_file, ib_file>>
locals == <<df, idx, imported, skipped, errors>>
database == <<committed, pending, tx, clock>>

\* main without the finally clause: the exception leaves main at once
OnException_NoFinally == "exit"

\* where an exception raised inside main's try block continues          (line 320)
OnException == "finally"

\* line 291: psycopg2.connect succeeds
Connect ==
    /\ pc = "connect"
    /\ conn' = "open"
    /\ pending' = committed
    /\ tx' = "idle"
    /\ pc' = "get_map"
    /\ UNCHANGED <<rvars, inputs, committed, clock, closes, expert_map, locals,
                   pe_count, ib_count, commits, failed, run, first_run>>

\* line 291: psycopg2.connect raises, outside the try block
ConnectFails ==
    /\ pc = "connect"
    /\ failed' = "connect"
    /\ pc' = "exit"
    /\ first_run' = IF run = 1 THEN [ended |-> "failed", table |-> committed] ELSE first_run
    /\ UNCHANGED <<rvars, inputs, database, conn, closes, expert_map, locals,
                   pe_count, ib_count, commits, run>>

\* lines 25-29: get_expert_id_map starts; the SELECT opens the transaction
GetMap ==
    /\ pc = "get_map"
    /\ tx' = "active"
    /\ name_map' = EmptyMap
    /\ exp_i' = 1
    /\ pc' = "map_full"
    /\ UNCHANGED <<q_name, q_res, inputs, committed, pending, clock, conn, closes,
                   expert_map, locals, pe_count, ib_count, commits, failed, run,
                   first_run>>

\* lines 31-33: the loop takes the next expert and registers the full name
BuildFull ==
    /\ pc = "map_full"
    /\ exp_i <= Len(experts)
    /\ name_map' = RegisterFull(name_map, experts[exp_i])
    /\ pc' = "map_first"
    /\ UNCHANGED <<exp_i, q_name, q_res, inputs, database, conn, closes, expert_map,
                   locals, pe_count, ib_count, commits, failed, run, first_run>>

\* lines 35-37: the first name, registered if the key is free; the IndexError of
\* split()[0] is caught nowhere and leaves main's try block
BuildFirst ==
    /\ pc = "map_first"
    /\ IF FirstNameRaises(experts[exp_i])
       THEN /\ failed' = "map_first"
            /\ pc' = OnException
            /\ UNCHANGED <<name_map, exp_i>>
       ELSE /\ name_map' = RegisterFirst(name_map, experts[exp_i])
            /\ exp_i' = exp_i + 1
            /\ pc' = "map_full"
            /\ UNCHANGED failed
    /\ UNCHANGED <<q_name, q_res, inputs, database, conn, closes, expert_map,
                   locals, pe_count, ib_count, commits, run, first_run>>

\* line 39 and line 295: the table is returned to main
BuildReturn ==
    /\ pc = "map_full"
    /\ exp_i > Len(experts)
    /\ expert_map' = name_map
    /\ pc' = "pe_read"
    /\ UNCHANGED <<rvars, inputs, database, conn, closes, locals,
                   pe_count, ib_count, commits, failed, run, first_run>>

\* the positions outside the per-row loops at which the database or the file system
\* may raise: the roster query, read_excel, commit, the verification query
FailurePoints == { "get_map", "pe_read", "pe_commit", "ib_read", "ib_commit", "verify" }

\* such an exception is caught nowhere: it leaves the importer and main's try block
Fails ==
    /\ pc \in FailurePoints
    /\ (pc \in {"pe_commit", "ib_commit"} => idx = Len(df))
    /\ failed' = pc
    /\ pc' = OnException
    /\ UNCHANGED <<rvars, inputs, database, conn, closes, expert_map, locals,
                   pe_count, ib_count, commits, run, first_run>>

\* lines 94-100 and 192-198: read the sheet, start the counters
ReadSheet(env) ==
    /\ pc = (IF env = "PE" THEN "pe_read" ELSE "ib_read")
    /\ df' = (IF env = "PE" THEN pe_file ELSE ib_file)
    /\ idx' = 0
    /\ imported' = 0
    /\ skipped' = 0
    /\ errors' = << >>
    /\ pc' = (IF env = "PE" THEN "pe_commit" ELSE "ib_commit")
    /\ UNCHANGED <<rvars, inputs, database, conn, closes, expert_map,
                   pe_count, ib_count, commits, failed, run, first_run>>

\* except Exception as e: errors.append(f"Row {idx}: {str(e)}"); skipped += 1
Caught(exc) ==
    /\ errors' = Append(errors, [row |-> idx, msg |-> exc])
    /\ skipped' = skipped + 1
    /\ UNCHANGED imported

\* One iteration of the loop (lines 102-179, 200-275).  cursor.execute on a connection
\* whose transaction a failed statement has aborted raises InFailedSqlTransaction; a
\* statement the server rejects aborts the transaction; nothing here rolls back.
ImportRow(env) ==
    /\ pc = (IF env = "PE" THEN "pe_commit" ELSE "ib_commit")
    /\ idx < Len(df)
    /\ \E o \in {RowOutcome(env, df[idx + 1], expert_map)} :
       CASE o.kind = "blank" ->
               /\ skipped' = skipped + 1
               /\ UNCHANGED <<imported, errors, pending, tx>>
         [] o.kind = "raise" ->
               /\ Caught(o.exc)
               /\ UNCHANGED <<pending, tx>>
         [] o.kind = "execute" /\ tx = "error" ->
               /\ Caught("InFailedSqlTransaction")
               /\ UNCHANGED <<pending, tx>>
         [] o.kind = "execute" /\ tx # "error" /\ ServerRejects(o.params) ->
               /\ Caught("NumericValueOutOfRange")
               /\ tx' = "error"
               /\ UNCHANGED pending
         [] OTHER ->
               /\ pending' = Upsert(pending, o.params, env, clock)
               /\ tx' = "active"
               /\ imported' = imported + 1
               /\ UNCHANGED <<skipped, errors>>
    /\ idx' = idx + 1
    /\ UNCHANGED <<rvars, inputs, committed, clock, conn, closes, pc, expert_map, df,
                   pe_count, ib_count, commits, failed, run, first_run>>

\* conn.commit() after the loop (lines 181, 277): COMMIT makes the transaction's work
\* durable, and on an aborted transaction it rolls back
Commit(env) ==
    /\ pc = (IF env = "PE" THEN "pe_commit" ELSE "ib_commit")
    /\ idx = Len(df)
    /\ committed' = (IF tx = "error" THEN committed ELSE pending)
    /\ pending' = committed'
    /\ tx' = "idle"
    /\ clock' = clock + 1
    /\ pc' = (IF env = "PE" THEN "pe_report" ELSE "ib_report")
    /\ commits' = Append(commits, env)
    /\ UNCHANGED <<rvars, inputs, conn, closes, expert_map, locals,
                   pe_count, ib_count, failed, run, first_run>>

\* lines 182-186 and 278-282: print and return imported; the locals are gone
Return(env) ==
    /\ pc = (IF env = "PE" THEN "pe_report" ELSE "ib_report")
    /\ IF env = "PE"
       THEN pe_count' = imported /\ UNCHANGED ib_count
       ELSE ib_count' = imported /\ UNCHANGED pe_count
    /\ df' = << >>
    /\ idx' = 0
    /\ imported' = 0
    /\ skipped' = 0
    /\ errors' = << >>
    /\ pc' = (IF env = "PE" THEN "ib_read" ELSE "verify")
    /\ UNCHANGED <<rvars, inputs, database, conn, closes, expert_map,
                   commits, failed, run, first_run>>

PERead == ReadSheet("PE")
PERow == ImportRow("PE")
PECommit == Commit("PE")
PEReturn == Return("PE")
IBRead == ReadSheet("IB")
IBRow == ImportRow("IB")
IBCommit == Commit("IB")
IBReturn == Return("IB")

\* lines 304-318: the summary and the verification query, which opens a transaction
Verify ==
    /\ pc = "verify"
    /\ tx' = "active"
    /\ pc' = "finally"
    /\ UNCHANGED <<rvars, inputs, committed, pending, clock, conn, closes, expert_map,
                   locals, pe_count, ib_count, commits, failed, run, first_run>>

\* lines 320-321: conn.close(); work that was not committed is discarded
Close ==
    /\ pc = "finally"
    /\ conn' = "closed"
    /\ closes' = closes + 1
    /\ pending' = committed
    /\ tx' = "idle"
    /\ pc' = "exit"
    /\ first_run' = IF run = 1
                    THEN [ended |-> IF failed = "none" THEN "ok" ELSE "failed",
                          table |-> committed]
                    ELSE first_run
    /\ UNCHANGED <<rvars, inputs, committed, clock, expert_map, locals,
                   pe_count, ib_count, commits, failed, run>>

\* the script is started again on the same files and the same roster
Rerun ==
    /\ pc = "exit"
    /\ run + 1 \in Runs
    /\ run' = run + 1
    /\ pc' = "connect"
    /\ conn' = "none"
    /\ closes' = 0
    /\ failed' = "none"
    /\ commits' = << >>
    /\ expert_map' = EmptyMap
    /\ pe_count' = 0
    /\ ib_count' = 0
    /\ clock' = clock + 1
    /\ UNCHANGED <<rvars, inputs, committed, pending, tx, locals, first_run>>

\* one run of the script
Main ==
    \/ Connect \/ ConnectFails \/ Fails
    \/ GetMap \/ BuildFull \/ BuildFirst \/ BuildReturn
    \/ PERead \/ PERow \/ PECommit \/ PEReturn
    \/ IBRead \/ IBRow \/ IBCommit \/ IBReturn
    \/ Verify \/ Close

Next == Main \/ Rerun

Spec == Init /\ [][Next]_vars

\* a single run, which the interpreter keeps executing until the script ends
FairSpec == Init /\ [][Main]_vars /\ WF_vars(Main)

----------------------------------------------------------------------------
(* The resolver on its own: build the table over a roster, then resolve *)

MaxRoster == 3

\* names the roster draws from; << >> is the empty name
RosterNames ==
    { T2("Jerry", "Song"), T2("Jerry", "Lee"), T2("Jerome", "Powell"), T1("Jerry"),
      T2("Jack", "Barnett"), T2("Jack", "Smith"), T2("Robert", "Alward"), << >> }

Rosters == { RosterOf(ns) : ns \in UNION { [1..n -> RosterNames] : n \in 0..MaxRoster } }

\* arguments given to resolve_expert_name
QueryNames ==
    { S(T1("jerry")), S(T1("Jerry")), S(T2("JERRY", "SONG")), S(T2("jerry", "song")),
      S(T1("Jerome")), S(T1("jack")), S(T1("rob")), S(<<SP, "Jack", SP, "Smith", SP>>),
      S(<<SP, SP>>), S(<< >>), NaN, None, N(0), N(7) }

\* get_expert_id_map has sent its query over an open connection; no sheet is read
ResolverInit ==
    /\ experts \in Rosters
    /\ name_map = EmptyMap
    /\ exp_i = 1
    /\ q_name = None
    /\ q_res = Ret(None)
    /\ pe_file = << >>
    /\ ib_file = << >>
    /\ committed = {}
    /\ pending = {}
    /\ tx = "active"
    /\ clock = 1
    /\ conn = "open"
    /\ closes = 0
    /\ pc = "map_full"
    /\ expert_map = EmptyMap
    /\ df = << >>
    /\ idx = 0
    /\ imported = 0
    /\ skipped = 0
    /\ errors = << >>
    /\ pe_count = 0
    /\ ib_count = 0
    /\ commits = << >>
    /\ failed = "none"
    /\ run = 1
    /\ first_run = [ended |-> "no", table |-> {}]

\* a call resolve_expert_name(name, expert_map) on the finished table
Resolve ==
    /\ pc = "pe_read"
    /\ \E name \in QueryNames :
          /\ q_name' = name
          /\ q_res' = ResolveExpertName(name, expert_map)
    /\ pc' = "asked"
    /\ UNCHANGED <<name_map, exp_i, inputs, database, conn, closes, expert_map,
                   locals, pe_count, ib_count, commits, failed, run, first_run>>

ResolverNext == BuildFull \/ BuildFirst \/ BuildReturn \/ Resolve

ResolverSpec == ResolverInit /\ [][ResolverNext]_vars

----------------------------------------------------------------------------
(* Claims about the resolver, checked under ResolverSpec *)

FirstKey(e) == Split(Lower(e.name))[1]

\* experts whose first-name registration has run, and whose full-name registration has
FirstDone == exp_i - 1
FullDone == IF pc = "map_first" \/ failed = "map_first" THEN exp_i ELSE exp_i - 1

WithFirst(k) == { j \in 1..FirstDone : FirstKey(experts[j]) = k }
WithFull(k) == { j \in 1..FullDone : Lower(experts[j].name) = k }
Min(A) == CHOOSE a \in A : \A b \in A : a <= b
Max(A) == CHOOSE a \in A : \A b \in A : a >= b

Named(name) == { j \in 1..Len(experts) : experts[j].name = name }
JerrySongs == Named(T2("Jerry", "Song"))
JerryForms == { S(T1("jerry")), S(T1("Jerry")), S(T2("JERRY", "SONG")), S(T2("jerry", "song")) }

\* C3 (as claimed): name resolution never raises: every call of resolve_expert_name,
\* whatever the value (absent, empty, whitespace-only, a name), returns an identifier
\* or None.
C3_ResolveNeverRaises ==
    pc = "asked" => q_res.exc = "none"

\* C4 (as claimed): on any roster with an expert named "Jerry Song", "jerry", "Jerry",
\* "JERRY SONG" and "jerry song" resolve to that expert and "Jerome" is unresolved.
C4_AnyRoster ==
    (pc = "asked" /\ JerrySongs # {}) =>
        /\ q_name \in JerryForms => \A j \in JerrySongs : q_res = Ret(N(experts[j].id))
        /\ q_name = S(T1("Jerome")) => q_res = Ret(None)

\* what the code gives instead: with exactly one expert named "Jerry Song", the two
\* full forms resolve to that expert; the two first-name forms resolve to that expert
\* when no expert whose first word is "jerry" is registered before it and no expert's
\* whole name is "jerry"; "Jerome" is unresolved when no expert's first word is "jerome".
JerrySongUnlessCollision ==
    (pc = "asked" /\ JerrySongs # {}) =>
        LET js == Min(JerrySongs)
            one == Cardinality(WithFull(T2("jerry", "song"))) = 1
        IN
        /\ (one /\ q_name \in { S(T2("JERRY", "SONG")), S(T2("jerry", "song")) })
              => q_res = Ret(N(experts[js].id))
        /\ (one /\ q_name \in { S(T1("jerry")), S(T1("Jerry")) }
                /\ Min(WithFirst(T1("jerry"))) = js /\ WithFull(T1("jerry")) = {})
              => q_res = Ret(N(experts[js].id))
        /\ (q_name = S(T1("Jerome")) /\ WithFirst(T1("jerome")) = {})
              => q_res = Ret(None)

JackBarnetts == Named(T2("Jack", "Barnett"))
JackSmiths == Named(T2("Jack", "Smith"))

\* C5 (as claimed): with "Jack Barnett" and "Jack Smith" in the roster, key "jack" maps
\* to whichever was registered first, and resolving "jack" returns Jack Barnett, in
\* either registration order.
C5_JackIsBarnett ==
    (/\ pc = "asked"
     /\ Cardinality(JackBarnetts) = 1
     /\ Cardinality(JackSmiths) = 1
     /\ WithFirst(T1("jack")) = JackBarnetts \cup JackSmiths
     /\ WithFull(T1("jack")) = {}) =>
        /\ name_map[T1("jack")] = experts[Min(JackBarnetts \cup JackSmiths)].id
        /\ q_name = S(T1("jack")) => q_res = Ret(N(experts[Min(JackBarnetts)].id))

\* first half of C9: a first-name registration never changes a key already present
C9_NoRepoint ==
    [][ pc = "map_first" =>
          \A k \in DOMAIN name_map : k \in DOMAIN name_map' /\ name_map'[k] = name_map[k] ]_vars

\* second half of C9 as claimed: every first-name key maps to the earliest-seen expert
\* whose name has that first word
C9_EarliestWins ==
    \A j \in 1..FirstDone :
        LET k == FirstKey(experts[j]) IN
        k \in DOMAIN name_map /\ name_map[k] = experts[Min(WithFirst(k))].id

\* C9 (as claimed): after every step of the build, a present key is never re-pointed by
\* a first-name registration and each first-name key maps to the earliest-seen expert
\* with that first word.
C9_FirstRegistrantWins == C9_NoRepoint /\ []C9_EarliestWins

\* C9 (amended): after every step of the build, a present key is never re-pointed by a
\* first-name registration; a first-name key that is no expert's whole (lowercased) name
\* maps to the earliest-seen expert with that first word, and a key that is the whole
\* name of experts seen so far maps to the last of them.
C9_FirstNameKeys ==
    /\ C9_NoRepoint
    /\ [](\A j \in 1..FirstDone :
            LET k == FirstKey(experts[j]) IN
            /\ k \in DOMAIN name_map
            /\ name_map[k] = IF WithFull(k) # {} THEN experts[Max(WithFull(k))].id
                             ELSE experts[Min(WithFirst(k))].id)

\* two experts sharing a first word have been registered and the key is the first's
C9_Witness ==
    /\ pc = "map_full"
    /\ exp_i = 3
    /\ experts[1].name = T2("Jack", "Barnett")
    /\ experts[2].name = T2("Jack", "Smith")
    /\ name_map[T1("jack")] = 1

----------------------------------------------------------------------------
(* Claims about the importers and main, checked under Spec and FairSpec *)

InImporter == pc \in {"pe_commit", "pe_report", "ib_commit", "ib_report"}
AfterCommit == pc \in {"pe_report", "ib_report"}
Env == IF pc \in {"pe_commit", "pe_report"} THEN "PE" ELSE "IB"
Legacy == S(<<"legacy_sheets">>)

\* the ID cell is absent or empty
BlankId(row) == PdIsNa(row["ID"]) \/ row["ID"] = S(<< >>)

Outcome(i) == RowOutcome(Env, df[i + 1], expert_map)

\* rows of df the loop has taken, by their index
Processed == 0..(idx - 1)
ErrorRows == { errors[k].row : k \in 1..Len(errors) }
\* rows counted as imported: processed, kept by the ID check, not in the error list
ImportedRows == { i \in Processed : Outcome(i).kind # "blank" /\ i \notin ErrorRows }
\* rows whose own coercion raises nothing and whose own statement the server accepts
OwnValid(i) == Outcome(i).kind = "execute" /\ ~ServerRejects(Outcome(i).params)
\* rows that fail on their own: in coercion, or in the statement
OwnFailing(i) == Outcome(i).kind = "raise" \/
                 (Outcome(i).kind = "execute" /\ ServerRejects(Outcome(i).params))
Stored(i) == \E r \in committed : SameKey(r, Outcome(i).params)

\* C1 (as claimed): a row failing in coercion or in the upsert is caught, recorded with
\* its index and counted as skipped, and every other row with an ID whose own coercion
\* and upsert are valid is counted as imported and is in the table after the commit.
C1_BadRowNeverAbortsBatch ==
    InImporter =>
        /\ \A i \in Processed : OwnFailing(i) => i \in ErrorRows
        /\ skipped + imported = idx
        /\ \A i \in Processed : OwnValid(i) => i \in ImportedRows
        /\ AfterCommit => \A i \in Processed : OwnValid(i) => Stored(i)

\* no statement of the batch was rejected by the server
NoStatementFailed == \A i \in Processed : Outcome(i).kind = "execute" => OwnValid(i)

\* C1 restricted to failures in coercion: these never abort the batch
CoercionFailureIsolated == NoStatementFailed => C1_BadRowNeverAbortsBatch

LastImported(i) ==
    Max({ j \in ImportedRows : SameKey(Outcome(j).params, Outcome(i).params) })

C8Roster == RosterOf(<<T2("Robert", "Alward"), T2("Jerry", "Song")>>)

\* C8 (as claimed): after an importer's commit, every key with a row counted as imported
\* has exactly one record, with the importer's environment, source 'legacy_sheets' and
\* every mapped column equal to the coerced value of the incoming row; the row
\* {ID: "P-100", SME: "rob", Spec #: 5, Status: "Done"} on the roster
\* [(1, "Robert Alward"), (2, "Jerry Song")] gives sme_id 1, spec_number 5, status "Done".
C8_UpsertResult ==
    AfterCommit =>
        \A i \in ImportedRows :
            LET p == Outcome(LastImported(i)).params
                rs == { r \in committed : SameKey(r, p) }
            IN
            /\ Cardinality(rs) = 1
            /\ \A r \in rs :
                  /\ r.environment = S(<<Env>>)
                  /\ r.source = Legacy
                  /\ \A c \in MappedColumns : r[c] = p[c]
                  /\ (Env = "PE" /\ experts = C8Roster /\ df[LastImported(i) + 1] = PEGood) =>
                        /\ r.problem_id = Txt("P-100")
                        /\ r.environment = Txt("PE")
                        /\ r.sme_id = N(1)
                        /\ r.spec_number = N(5)
                        /\ r.status = Txt("Done")
                        /\ r.separate_environment_init = B(FALSE)
                        /\ r.week = None

\* C8 in the batches in which no statement failed
UpsertResultUnlessAborted == NoStatementFailed => C8_UpsertResult

\* the durable table changes only in a commit step, taken after the last row
DurableOnlyAtCommit ==
    [][ committed' # committed =>
          /\ pc \in {"pe_commit", "ib_commit"}
          /\ idx = Len(df)
          /\ pc' \in {"pe_report", "ib_report"} ]_vars

\* each importer commits at most once, PE before IB reads or writes anything
CommitOrder ==
    /\ commits \in { << >>, <<"PE">>, <<"PE", "IB">> }
    /\ pc \in {"ib_read", "ib_commit"} => commits = <<"PE">>
    /\ pc \in {"ib_report", "verify"} => commits = <<"PE", "IB">>
    /\ failed \in {"ib_read", "ib_commit"} => commits = <<"PE">>

\* no IB statement of this run is durable
NoIBCommitted ==
    LET ib == { r \in committed : r.environment = Txt("IB") } IN
    IF run = 1 THEN \A r \in ib : r.source # Legacy
    ELSE ib = { r \in first_run.table : r.environment = Txt("IB") }

\* the ordering half of C10
CommitOrdering ==
    /\ DurableOnlyAtCommit
    /\ [](CommitOrder /\ (failed \in {"ib_read", "ib_commit"} => NoIBCommitted))

\* C10 (as claimed): each importer commits once, after its last row; PE's commit comes
\* before IB reads its sheet; when the IB importer fails outside its loop the PE records
\* are committed and in the table and no IB upsert of the run is committed.
C10_CommitOrdering ==
    /\ CommitOrder
    /\ failed \in {"ib_read", "ib_commit"} =>
          /\ NoIBCommitted
          /\ pe_count > 0 =>
                \E r \in committed : r.environment = Txt("PE") /\ r.source = Legacy

NoUpdatedAt(T) == { [r EXCEPT !["updated_at"] = 0] : r \in T }

\* C2: when the first run imported both sheets, then during and after the second run on
\* the same files and roster the table has the same records as after the first, equal
\* in every column but updated_at.
C2_ReimportIdempotent ==
    (run = 2 /\ first_run.ended = "ok") =>
        NoUpdatedAt(committed) = NoUpdatedAt(first_run.table)

\* the second run has ended normally on a sheet with the same ID twice, and has
\* advanced updated_at
C2_Witness ==
    /\ run = 2 /\ pc = "exit" /\ failed = "none" /\ first_run.ended = "ok"
    /\ pe_file = <<PEGood, PEFull>>
    /\ committed # first_run.table
    /\ Cardinality(committed) = 1

C7_ConnectionReleased ==
    /\ (conn = "open") ~> (conn = "closed")
    /\ [](/\ closes <= 1
          /\ conn = "closed" <=> closes = 1
          /\ pc = "exit" => conn # "open"
          /\ failed \notin {"none", "connect"} => pc \in {"finally", "exit"})
    /\ [][ conn = "closed" => UNCHANGED <<committed, pending, tx>> ]_vars

\* the IB importer's commit raised and the connection has been closed
C7_Witness ==
    /\ failed = "ib_commit"
    /\ conn = "closed"
    /\ closes = 1
    /\ pc = "exit"

====
